---- MODULE Spec2Model ----
(***************************************************************************)
(* Browser-session lifecycle of LinkedInProfileScraper (src/src/index.ts). *)
(*                                                                         *)
(* The scraper instance owns one field, this.browser.  setup(), run() and  *)
(* close() are async methods: every `await` of a Puppeteer call is one     *)
(* step of the model, and every such call may throw.  close() runs inside  *)
(* `new Promise(async (resolve, reject) => ...)`, so its body keeps        *)
(* running after reject() was called, and the tree-kill callback fires     *)
(* after the promise has settled; both are modelled as separate steps of   *)
(* a close execution.                                                      *)
(*                                                                         *)
(* Environment (Puppeteer, tree-kill), as used by the code:                *)
(*   - puppeteer.launch() starts a process whose browser has one blank     *)
(*     page; browser.pages() lists the open pages, oldest first;           *)
(*   - an awaited operation on a closed page, or a newPage() on a closed   *)
(*     browser, throws;                                                    *)
(*   - a browser.close() that resolves has ended the process; one that     *)
(*     throws leaves it as it was;                                         *)
(*   - treeKill reports its result in a callback, after the caller's       *)
(*     synchronous code has finished.                                      *)
(*                                                                         *)
(* Specifications:                                                         *)
(*   Spec      one caller that awaits every call before the next one;      *)
(*   SpecConc  run() calls started while another run() is in flight;       *)
(*   SpecData  the extraction and normalization code of run(), on every    *)
(*             document with up to MaxNodes section nodes;                 *)
(*   SpecNew   the constructor, on every option object of OptionInputs;    *)
(*   SpecExpand  the two expansion passes of run(), on every document      *)
(*             with up to MaxButtons 'see more' links;                     *)
(*   SpecScroll  autoScroll on a document that grows up to MaxGrow times,  *)
(*             with the timer firing as long as it is set;                 *)
(*   SpecRequest the request handler of createPage, on every hosts file    *)
(*             of up to MaxLines lines.                                    *)
(***************************************************************************)
EXTENDS Integers, Sequences, FiniteSets, TLC

\* ---------------------------------------------------------------- bounds
MaxLaunch == 2
MaxFaults == 2
MaxEx == 4

Tasks == {1, 2}
Browsers == 1..MaxLaunch
PageIds == 1..(MaxLaunch + MaxEx + 4)

\* strings are sequences of characters
EmptyString == <<>>

\* the literal 'linkedin.com/' of run()
LinkedInDomain == <<"l", "i", "n", "k", "e", "d", "i", "n", ".", "c", "o", "m", "/">>

\* profileUrl inputs of run(): '', 'linkedin.com' (no slash), a foreign
\* domain, and two profile URLs, with and without scheme
UrlNoSlash == <<"l", "i", "n", "k", "e", "d", "i", "n", ".", "c", "o", "m">>

UrlForeign == <<"h", "t", "t", "p", "s", ":", "/", "/", "l", "i", "n", "k", "e", "d", ".", "i", "n", "/", "x">>

UrlBare == LinkedInDomain \o <<"i", "n", "/", "x">>

UrlProfile == <<"h", "t", "t", "p", "s", ":", "/", "/", "w", "w", "w", ".">> \o UrlBare

Urls == {EmptyString, UrlNoSlash, UrlForeign, UrlBare, UrlProfile}

VARIABLES
  browser,    \* this.browser: 0 is null, otherwise the id of a launched browser
  launched,   \* number of browsers launched so far by puppeteer.launch
  live,       \* live[b]: the OS process of browser b is running
  pages,      \* pages[b]: open pages of browser b, oldest first
  closes,     \* closes[b]: graceful browser.close() calls that resolved on b
  kills,      \* kills[b]: treeKill invocations made for the pid of b
  killed,     \* killed[b]: a treeKill for b has completed without error
  ex,         \* the executions of close(), in call order
  call,       \* call[t]: the top-level invocation t of setup/run/close
  faults,     \* number of environment failures so far
  keepAlive,  \* options.keepAlive
  lastRunOk,  \* the latest settled call was a run() that resolved
  conc,       \* the caller starts a call while another one is in flight
  doc,        \* the profile document: the nodes each section selector matches
  at,         \* the position of run() in its extraction code
  raw,        \* the raw records read from the document, by section
  out,        \* the normalized records, by section
  sentinelIsDate,  \* formatDate('Present') gives the current date
  userDefinedOptions,  \* the argument of the constructor
  instance,   \* "none" before `new`, then "constructed" or "threw"
  xp,         \* the position of run() in its two expansion passes
  dom,        \* the 'see more' elements of the document
  xlog,       \* the lookups and clicks of the expansion passes, in order
  scroll,     \* the locals of autoScroll's timer callback
  height,     \* document.body.scrollHeight
  grown,      \* the growths of the document during autoScroll
  request,    \* an intercepted request
  blockedHostsList,  \* the text of ./blocked-hosts
  blockedHosts,  \* the keys of the object createPage got from getBlockedHosts()
  resolved    \* the abort() and continue() calls made on the request

scraperVars == <<browser, launched, live, pages, closes, kills, killed, ex, call,
                 faults, keepAlive, lastRunOk, conc>>

dataVars == <<doc, at, raw, out, sentinelIsDate>>

newVars == <<userDefinedOptions, instance>>

loadVars == <<xp, dom, xlog, scroll, height, grown>>

requestVars == <<request, blockedHostsList, blockedHosts, resolved>>

vars == <<scraperVars, dataVars, newVars, loadVars, requestVars>>

\* ---------------------------------------------------------------- helpers
Range(s) == {s[i] : i \in 1..Len(s)}

Remove(s, p) == SelectSeq(s, LAMBDA x : x # p)

IsOpen(p) == \E b \in Browsers : p \in Range(pages[b])

ClosePage(p) == [b \in Browsers |-> Remove(pages[b], p)]

UsedPages ==
  UNION {Range(pages[b]) : b \in Browsers}
    \cup {call[t].page : t \in Tasks} \cup {call[t].first : t \in Tasks}
    \cup {ex[i].pg : i \in 1..Len(ex)}

FreshPage == CHOOSE p \in PageIds : p \notin UsedPages /\ \A q \in PageIds : q < p => q \in UsedPages

\* this.options.keepAlive defaults to false
DefaultKeepAlive == FALSE

\* String.prototype.includes
Includes(u, pat) ==
  \E i \in 0..(Len(u) - Len(pat)) : SubSeq(u, i + 1, i + Len(pat)) = pat

\* a domain test that forgets the trailing slash of the literal
IsLinkedIn_NoSlash(u) == Includes(u, UrlNoSlash)

\* profileUrl.includes('linkedin.com/')
IsLinkedIn(u) == Includes(u, LinkedInDomain)

InFlight(t) == call[t].pc \notin {"idle", "resolved", "rejected"}

\* a caller that awaits every call has none in flight when it starts the next;
\* the other caller starts a call while run() calls are in flight
MayStart(t) ==
  /\ ~InFlight(t)
  /\ \A u \in Tasks : u < t => InFlight(u)
  /\ \A u \in Tasks : ~InFlight(u) \/ (conc /\ call[u].op = "run")
  /\ Len(ex) + 2 * (Cardinality({u \in Tasks : InFlight(u)}) + 1) <= MaxEx

\* outcome ok of an environment call that can succeed only if `can`
Outcome(can, ok) == IF ok THEN can ELSE (~can \/ faults < MaxFaults)

Fault(can, ok) == IF ~ok /\ can THEN faults + 1 ELSE faults

\* the stages a run() has passed, in order
Stage(name) == [stage |-> name, section |-> "none"]

Extracted(s) == [stage |-> "Extracted", section |-> s]

Normalized(s) == [stage |-> "Normalized", section |-> s]

IdleCall == [op |-> "none", pc |-> "idle", page |-> 0, first |-> 0, err |-> "none",
             cl |-> 0, url |-> "none", pre |-> FALSE, lb |-> 0, got |-> FALSE,
             flt |-> FALSE, second |-> FALSE, orig |-> "none",
             arg |-> EmptyString, dead |-> FALSE, over |-> 0, log |-> <<>>]

\* ---------------------------------------------------------------- close()
\* the synchronous head of close(page): up to its first await
NewExec(t, pg) ==
  LET torn == browser # 0 /\ closes[browser] >= 1
      base == [owner |-> t, pg |-> pg, b |-> 0, st |-> "done", settled |-> "resolved",
               kill |-> "none", kb |-> 0, torn |-> torn, acted |-> FALSE]
  IN  IF pg # 0 THEN [base EXCEPT !.st = "page", !.settled = "pending"]
      ELSE IF browser # 0 THEN [base EXCEPT !.st = "browser", !.b = browser, !.settled = "pending"]
      ELSE base

Settle(e, how) == IF e.settled = "pending" THEN [e EXCEPT !.settled = how] ELSE e

MarkFault(c, t, can, ok) ==
  IF ~ok /\ can THEN [c EXCEPT ![t].flt = TRUE] ELSE c

\* `await page.close()` of close(page); a failure rejects and the body goes on
ExPageClose(i, ok) ==
  /\ i \in 1..Len(ex)
  /\ ex[i].st = "page"
  /\ Outcome(IsOpen(ex[i].pg), ok)
  /\ faults' = Fault(IsOpen(ex[i].pg), ok)
  /\ pages' = IF ok THEN ClosePage(ex[i].pg) ELSE pages
  /\ LET e1 == IF ok THEN ex[i] ELSE Settle(ex[i], "rejected")
         e2 == IF browser # 0
               THEN [e1 EXCEPT !.st = "browser", !.b = browser]
               ELSE [Settle(e1, "resolved") EXCEPT !.st = "done"]
     IN  ex' = [ex EXCEPT ![i] = e2]
  /\ call' = MarkFault(call, ex[i].owner, IsOpen(ex[i].pg), ok)
  /\ UNCHANGED <<browser, launched, live, closes, kills, killed, keepAlive, lastRunOk, conc>>
  /\ UNCHANGED <<dataVars, newVars, loadVars, requestVars>>

\* `await this.browser.close()`, then the pid is read from this.browser and
\* treeKill is started; the trailing resolve() runs before its callback
ExBrowserClose(i, ok) ==
  /\ i \in 1..Len(ex)
  /\ ex[i].st = "browser"
  /\ Outcome(TRUE, ok)
  /\ faults' = Fault(TRUE, ok)
  /\ call' = MarkFault(call, ex[i].owner, TRUE, ok)
  /\ IF ok
     THEN /\ live' = [live EXCEPT ![ex[i].b] = FALSE]
          /\ pages' = [pages EXCEPT ![ex[i].b] = <<>>]
          /\ closes' = [closes EXCEPT ![ex[i].b] = @ + 1]
          /\ kills' = [kills EXCEPT ![browser] = @ + 1]
          /\ ex' = [ex EXCEPT ![i] = [Settle(ex[i], "resolved") EXCEPT
                       !.st = "done", !.kill = "pending", !.kb = browser, !.acted = TRUE]]
     ELSE /\ ex' = [ex EXCEPT ![i] = [Settle(Settle(ex[i], "rejected"), "resolved") EXCEPT !.st = "done"]]
          /\ UNCHANGED <<live, pages, closes, kills>>
  /\ UNCHANGED <<browser, launched, killed, keepAlive, lastRunOk, conc>>
  /\ UNCHANGED <<dataVars, newVars, loadVars, requestVars>>

\* the treeKill callback: reject(...) on error, else resolve()
KillCallback(i, ok) ==
  /\ i \in 1..Len(ex)
  /\ ex[i].kill = "pending"
  /\ Outcome(TRUE, ok)
  /\ faults' = Fault(TRUE, ok)
  /\ IF ok
     THEN /\ live' = [live EXCEPT ![ex[i].kb] = FALSE]
          /\ pages' = [pages EXCEPT ![ex[i].kb] = <<>>]
          /\ killed' = [killed EXCEPT ![ex[i].kb] = TRUE]
          /\ ex' = [ex EXCEPT ![i] = [Settle(ex[i], "resolved") EXCEPT !.kill = "ok"]]
     ELSE /\ ex' = [ex EXCEPT ![i] = [Settle(ex[i], "rejected") EXCEPT !.kill = "failed"]]
          /\ UNCHANGED <<live, pages, killed>>
  /\ UNCHANGED <<browser, launched, closes, kills, call, keepAlive, lastRunOk, conc>>
  /\ UNCHANGED <<dataVars, newVars, loadVars, requestVars>>

\* ---------------------------------------------------------------- throwing
\* the first exception raised inside the try of an invocation
FirstError(c, kind) == IF c.orig = "none" THEN kind ELSE c.orig

\* an exception inside createPage's try: its catch calls `await this.close()`
ThrowInner(c, t, kind) ==
  /\ ex' = Append(ex, NewExec(t, 0))
  /\ call' = [c EXCEPT ![t].pc = "cp_wait", ![t].err = kind, ![t].cl = Len(ex) + 1,
                       ![t].orig = FirstError(c[t], kind)]

\* an exception inside the try of setup() or run(): the catch calls `await this.close()`
ThrowOuter(c, t, kind) ==
  /\ ex' = Append(ex, NewExec(t, 0))
  /\ call' = [c EXCEPT ![t].pc = "catch_wait", ![t].err = kind, ![t].cl = Len(ex) + 1,
                       ![t].orig = FirstError(c[t], kind)]

\* ---------------------------------------------------------------- setup()
StartSetup(t) ==
  /\ MayStart(t)
  /\ \A u \in Tasks : ~InFlight(u)
  /\ launched + Cardinality({u \in Tasks : call[u].pc = "launch"}) < MaxLaunch
  /\ call' = [call EXCEPT ![t] = [IdleCall EXCEPT !.op = "setup", !.pc = "launch"]]
  /\ lastRunOk' = FALSE
  /\ UNCHANGED <<browser, launched, live, pages, closes, kills, killed, ex, faults, keepAlive, conc>>
  /\ UNCHANGED <<dataVars, newVars, loadVars, requestVars>>

\* `this.browser = await puppeteer.launch(...)`, then checkIfLoggedIn() calls
\* createPage(), whose `!this.browser` test passes
Launch(t, ok) ==
  /\ call[t].pc = "launch"
  /\ Outcome(TRUE, ok)
  /\ faults' = Fault(TRUE, ok)
  /\ IF ok
     THEN /\ browser' = launched + 1
          /\ launched' = launched + 1
          /\ live' = [live EXCEPT ![launched + 1] = TRUE]
          /\ pages' = [pages EXCEPT ![launched + 1] = <<FreshPage>>]
          /\ call' = [call EXCEPT ![t].pc = "cp_new", ![t].lb = launched + 1]
          /\ UNCHANGED ex
     ELSE /\ ThrowOuter(MarkFault(call, t, TRUE, ok), t, "launch")
          /\ UNCHANGED <<browser, launched, live, pages>>
  /\ UNCHANGED <<closes, kills, killed, keepAlive, lastRunOk, conc>>
  /\ UNCHANGED <<dataVars, newVars, loadVars, requestVars>>

\* ---------------------------------------------------------------- createPage()
\* `const page = await this.browser.newPage()`
CpNewPage(t, ok) ==
  /\ call[t].pc = "cp_new"
  /\ Outcome(live[browser], ok)
  /\ faults' = Fault(live[browser], ok)
  /\ IF ok
     THEN /\ pages' = [pages EXCEPT ![browser] = Append(@, FreshPage)]
          /\ call' = [call EXCEPT ![t].pc = "cp_pages", ![t].page = FreshPage]
          /\ UNCHANGED ex
     ELSE /\ ThrowInner(MarkFault(call, t, live[browser], ok), t, "newPage")
          /\ UNCHANGED pages
  /\ UNCHANGED <<browser, launched, live, closes, kills, killed, keepAlive, lastRunOk, conc>>
  /\ UNCHANGED <<dataVars, newVars, loadVars, requestVars>>

\* `const firstPage = (await this.browser.pages())[0]`
FirstPage(b) == IF pages[b] = <<>> THEN 0 ELSE pages[b][1]

CpPages(t, ok) ==
  /\ call[t].pc = "cp_pages"
  /\ Outcome(live[browser], ok)
  /\ faults' = Fault(live[browser], ok)
  /\ IF ok /\ FirstPage(browser) # 0
     THEN /\ call' = [call EXCEPT ![t].pc = "cp_first", ![t].first = FirstPage(browser)]
          /\ UNCHANGED ex
     ELSE /\ ThrowInner(MarkFault(call, t, live[browser], ok), t, "pages")
  /\ UNCHANGED <<browser, launched, live, pages, closes, kills, killed, keepAlive, lastRunOk, conc>>
  /\ UNCHANGED <<dataVars, newVars, loadVars, requestVars>>

\* `await firstPage.close()`
CpCloseFirst(t, ok) ==
  /\ call[t].pc = "cp_first"
  /\ Outcome(IsOpen(call[t].first), ok)
  /\ faults' = Fault(IsOpen(call[t].first), ok)
  /\ IF ok
     THEN /\ pages' = ClosePage(call[t].first)
          /\ call' = [call EXCEPT ![t].pc = "cp_cfg"]
          /\ UNCHANGED ex
     ELSE /\ ThrowInner(MarkFault(call, t, IsOpen(call[t].first), ok), t, "firstPage.close")
          /\ UNCHANGED pages
  /\ UNCHANGED <<browser, launched, live, closes, kills, killed, keepAlive, lastRunOk, conc>>
  /\ UNCHANGED <<dataVars, newVars, loadVars, requestVars>>

\* createCDPSession, setBypassCSP, session.send, setRequestInterception,
\* setUserAgent, setViewport, setCookie on the new page; then `return page`
CpConfigure(t, ok) ==
  /\ call[t].pc = "cp_cfg"
  /\ Outcome(IsOpen(call[t].page), ok)
  /\ faults' = Fault(IsOpen(call[t].page), ok)
  /\ IF ok
     THEN /\ call' = [call EXCEPT ![t].got = TRUE,
                        ![t].pc = IF call[t].op = "setup" THEN "chk_goto" ELSE "run_goto",
                        ![t].log = IF call[t].op = "run" THEN <<Stage("PageOpen")>> ELSE @]
          /\ UNCHANGED ex
     ELSE /\ ThrowInner(MarkFault(call, t, IsOpen(call[t].page), ok), t, "configure")
  /\ UNCHANGED <<browser, launched, live, pages, closes, kills, killed, keepAlive, lastRunOk, conc>>
  /\ UNCHANGED <<dataVars, newVars, loadVars, requestVars>>

\* ---------------------------------------------------------------- checkIfLoggedIn()
\* `await page.goto('https://www.linkedin.com/login', ...)`; `const url = page.url()`
ChkGoto(t, ok, finalUrl) ==
  /\ call[t].pc = "chk_goto"
  /\ Outcome(IsOpen(call[t].page), ok)
  /\ faults' = Fault(IsOpen(call[t].page), ok)
  /\ IF ok
     THEN /\ call' = [call EXCEPT ![t].pc = "chk_close", ![t].url = finalUrl]
          /\ UNCHANGED ex
     ELSE /\ finalUrl = "/feed"
          /\ ThrowOuter(MarkFault(call, t, IsOpen(call[t].page), ok), t, "goto")
  /\ UNCHANGED <<browser, launched, live, pages, closes, kills, killed, keepAlive, lastRunOk, conc>>
  /\ UNCHANGED <<dataVars, newVars, loadVars, requestVars>>

\* `const isLoggedIn = !url.endsWith('/login')`
IsLoggedIn(url) == url # "/login"

\* `await page.close()`, then return or `throw new SessionExpired(...)`
ChkClose(t, ok) ==
  /\ call[t].pc = "chk_close"
  /\ Outcome(IsOpen(call[t].page), ok)
  /\ faults' = Fault(IsOpen(call[t].page), ok)
  /\ IF ok
     THEN /\ pages' = ClosePage(call[t].page)
          /\ IF IsLoggedIn(call[t].url)
             THEN /\ call' = [call EXCEPT ![t].pc = "resolved"]
                  /\ UNCHANGED ex
             ELSE ThrowOuter(call, t, "SessionExpired")
     ELSE /\ ThrowOuter(MarkFault(call, t, IsOpen(call[t].page), ok), t, "page.close")
          /\ UNCHANGED pages
  /\ UNCHANGED <<browser, launched, live, closes, kills, killed, keepAlive, lastRunOk, conc>>
  /\ UNCHANGED <<dataVars, newVars, loadVars, requestVars>>

\* ---------------------------------------------------------------- run()
\* the three precondition tests of run(profileUrl), then createPage()
\* the page another run() has created and not yet closed when run() t starts
\* (0 when there is none): run() itself never looks at it
PageOfOtherRun(t) ==
  LET s == {call[u].page : u \in {v \in Tasks \ {t} :
                 call[v].op = "run" /\ InFlight(v) /\ IsOpen(call[v].page)}}
  IN  IF s = {} THEN 0 ELSE CHOOSE p \in s : TRUE

StartRun(t, u) ==
  /\ MayStart(t)
  /\ LET c == [IdleCall EXCEPT !.op = "run", !.arg = u,
                               !.dead = (browser # 0 /\ ~live[browser]),
                               !.over = PageOfOtherRun(t)]
     IN  call' = [call EXCEPT ![t] =
           IF browser = 0 THEN [c EXCEPT !.pc = "rejected", !.err = "Browser is not set"]
           ELSE IF u = EmptyString THEN [c EXCEPT !.pc = "rejected", !.err = "No profileUrl given"]
           ELSE IF ~IsLinkedIn(u) THEN [c EXCEPT !.pc = "rejected", !.err = "not a linkedin.com url"]
           ELSE [c EXCEPT !.pc = "cp_new", !.pre = TRUE, !.second = (lastRunOk /\ keepAlive)]]
  /\ UNCHANGED <<browser, launched, live, pages, closes, kills, killed, ex, faults,
                 keepAlive, lastRunOk, conc>>
  /\ UNCHANGED <<dataVars, newVars, loadVars, requestVars>>

\* an awaited call of run() on its page: on success run() has passed `stages`
\* and goes on at `to`
PageStep(t, ok, to, kind, stages) ==
  /\ Outcome(IsOpen(call[t].page), ok)
  /\ faults' = Fault(IsOpen(call[t].page), ok)
  /\ IF ok
     THEN /\ call' = [call EXCEPT ![t].pc = to, ![t].log = @ \o stages]
          /\ UNCHANGED ex
     ELSE ThrowOuter(MarkFault(call, t, IsOpen(call[t].page), ok), t, kind)

\* `await page.goto(profileUrl, ...)`
RunGoto(t, ok) ==
  /\ call[t].pc = "run_goto"
  /\ PageStep(t, ok, "run_scroll", "goto", <<Stage("Navigated")>>)
  /\ UNCHANGED <<browser, launched, live, pages, closes, kills, killed, keepAlive, lastRunOk, conc>>
  /\ UNCHANGED <<dataVars, newVars, loadVars, requestVars>>

\* (a run() that goes from scrolling straight to the extraction)
RunScroll_SkipsExpansion(t, ok) ==
  /\ call[t].pc = "run_scroll"
  /\ PageStep(t, ok, "run_profile", "autoScroll", <<>>)
  /\ UNCHANGED <<browser, launched, live, pages, closes, kills, killed, keepAlive, lastRunOk, conc>>
  /\ UNCHANGED <<dataVars, newVars, loadVars, requestVars>>

\* `await autoScroll(page)`
RunScroll(t, ok) ==
  /\ call[t].pc = "run_scroll"
  /\ PageStep(t, ok, "run_expand", "autoScroll", <<>>)
  /\ UNCHANGED <<browser, launched, live, pages, closes, kills, killed, keepAlive, lastRunOk, conc>>
  /\ UNCHANGED <<dataVars, newVars, loadVars, requestVars>>

\* both expansion passes and `page.waitFor(100)`; only `page.$$` can throw
RunExpand(t, ok) ==
  /\ call[t].pc = "run_expand"
  /\ PageStep(t, ok, "run_profile", "expand", <<Stage("ContentLoaded")>>)
  /\ UNCHANGED <<browser, launched, live, pages, closes, kills, killed, keepAlive, lastRunOk, conc>>
  /\ UNCHANGED <<dataVars, newVars, loadVars, requestVars>>

\* `await page.evaluate(...)` of the profile, then `const userProfile = ...`
RunProfile(t, ok) ==
  /\ call[t].pc = "run_profile"
  /\ PageStep(t, ok, "run_experiences", "evaluate",
              <<Extracted("profile"), Normalized("profile")>>)
  /\ UNCHANGED <<browser, launched, live, pages, closes, kills, killed, keepAlive, lastRunOk, conc>>
  /\ UNCHANGED <<dataVars, newVars, loadVars, requestVars>>

\* `await page.$$eval(...)` of the experiences, then `rawExperiencesData.map(...)`
RunExperiences(t, ok) ==
  /\ call[t].pc = "run_experiences"
  /\ PageStep(t, ok, "run_education", "$$eval",
              <<Extracted("experiences"), Normalized("experiences")>>)
  /\ UNCHANGED <<browser, launched, live, pages, closes, kills, killed, keepAlive, lastRunOk, conc>>
  /\ UNCHANGED <<dataVars, newVars, loadVars, requestVars>>

\* `await page.$$eval(...)` of the education, then `rawEducationData.map(...)`
RunEducation(t, ok) ==
  /\ call[t].pc = "run_education"
  /\ PageStep(t, ok, "run_volunteer", "$$eval",
              <<Extracted("education"), Normalized("education")>>)
  /\ UNCHANGED <<browser, launched, live, pages, closes, kills, killed, keepAlive, lastRunOk, conc>>
  /\ UNCHANGED <<dataVars, newVars, loadVars, requestVars>>

\* `await page.$$eval(...)` of the volunteer experiences, then
\* `rawVolunteerExperiences.map(...)`
RunVolunteer(t, ok) ==
  /\ call[t].pc = "run_volunteer"
  /\ PageStep(t, ok, "run_skills", "$$eval",
              <<Extracted("volunteerExperiences"), Normalized("volunteerExperiences")>>)
  /\ UNCHANGED <<browser, launched, live, pages, closes, kills, killed, keepAlive, lastRunOk, conc>>
  /\ UNCHANGED <<dataVars, newVars, loadVars, requestVars>>

\* `const skills = await page.$$eval(...)`: the skills are returned as read
RunSkills(t, ok) ==
  /\ call[t].pc = "run_skills"
  /\ PageStep(t, ok, "run_fin", "$$eval", <<Extracted("skills")>>)
  /\ UNCHANGED <<browser, launched, live, pages, closes, kills, killed, keepAlive, lastRunOk, conc>>
  /\ UNCHANGED <<dataVars, newVars, loadVars, requestVars>>

\* `if (!this.options.keepAlive) await this.close(page) else await page.close()`
RunFinish(t, ok) ==
  /\ call[t].pc = "run_fin"
  /\ IF keepAlive
     THEN /\ Outcome(IsOpen(call[t].page), ok)
          /\ faults' = Fault(IsOpen(call[t].page), ok)
          /\ IF ok
             THEN /\ pages' = ClosePage(call[t].page)
                  /\ call' = [call EXCEPT ![t].pc = "resolved",
                                           ![t].log = Append(@, Stage("Closed"))]
                  /\ lastRunOk' = TRUE
                  /\ UNCHANGED ex
             ELSE /\ ThrowOuter(MarkFault(call, t, IsOpen(call[t].page), ok), t, "page.close")
                  /\ UNCHANGED <<pages, lastRunOk>>
     ELSE /\ ok
          /\ ex' = Append(ex, NewExec(t, call[t].page))
          /\ call' = [call EXCEPT ![t].pc = "fin_wait", ![t].cl = Len(ex) + 1]
          /\ UNCHANGED <<pages, faults, lastRunOk>>
  /\ UNCHANGED <<browser, launched, live, closes, kills, killed, keepAlive, conc>>
  /\ UNCHANGED <<dataVars, newVars, loadVars, requestVars>>

\* ---------------------------------------------------------------- close() by the caller
StartClose(t) ==
  /\ MayStart(t)
  /\ \A u \in Tasks : ~InFlight(u)
  /\ ex' = Append(ex, NewExec(t, 0))
  /\ call' = [call EXCEPT ![t] = [IdleCall EXCEPT !.op = "close", !.pc = "user_wait", !.cl = Len(ex) + 1]]
  /\ lastRunOk' = FALSE
  /\ UNCHANGED <<browser, launched, live, pages, closes, kills, killed, faults, keepAlive, conc>>
  /\ UNCHANGED <<dataVars, newVars, loadVars, requestVars>>

\* ---------------------------------------------------------------- await this.close(...)
\* the caller of close() resumes once the promise has settled
AwaitClose(t) ==
  /\ call[t].pc \in {"cp_wait", "catch_wait", "fin_wait", "user_wait"}
  /\ ex[call[t].cl].settled # "pending"
  /\ LET rejected == ex[call[t].cl].settled = "rejected"
         pc == call[t].pc
     IN  \/ /\ pc = "cp_wait"
            \* createPage's catch: `throw err`, or the rejection of close();
            \* either one lands in the catch of setup() / run()
            /\ ThrowOuter(call, t, IF rejected THEN "close" ELSE call[t].err)
            /\ UNCHANGED lastRunOk
         \/ /\ pc = "fin_wait"
            /\ IF rejected
               THEN /\ ThrowOuter(call, t, "close(page)")
                    /\ UNCHANGED lastRunOk
               ELSE /\ call' = [call EXCEPT ![t].pc = "resolved",
                                             ![t].log = Append(@, Stage("Closed"))]
                    /\ lastRunOk' = TRUE
                    /\ UNCHANGED ex
         \/ /\ pc = "catch_wait"
            \* `await this.close(); throw err`
            /\ call' = [call EXCEPT ![t].pc = "rejected",
                          ![t].err = IF rejected THEN "close" ELSE call[t].err]
            /\ lastRunOk' = FALSE
            /\ UNCHANGED ex
         \/ /\ pc = "user_wait"
            /\ call' = [call EXCEPT ![t].pc = IF rejected THEN "rejected" ELSE "resolved",
                          ![t].err = IF rejected THEN "close" ELSE "none"]
            /\ UNCHANGED <<ex, lastRunOk>>
  /\ UNCHANGED <<browser, launched, live, pages, closes, kills, killed, faults, keepAlive, conc>>
  /\ UNCHANGED <<dataVars, newVars, loadVars, requestVars>>

\* ------------------------------------------------ extraction: strings
\* JavaScript null in a field that holds a string otherwise
Null == <<"null">>

\* the character U+2013, the separator of a date-range text
EnDash == "en-dash"

Space == " "

Jan2018 == <<"J", "a", "n", " ", "2", "0", "1", "8">>

Mar2019 == <<"M", "a", "r", " ", "2", "0", "1", "9">>

\* the sentinel 'Present' and the literal 'present' of the extraction code
Present == <<"P", "r", "e", "s", "e", "n", "t">>

PresentLower == <<"p", "r", "e", "s", "e", "n", "t">>

\* String.prototype.split(sep) for a one-character separator
RECURSIVE Split(_, _)
Split(s, sep) ==
  IF \A i \in 1..Len(s) : s[i] # sep
  THEN <<s>>
  ELSE LET k == CHOOSE i \in 1..Len(s) : s[i] = sep /\ \A j \in 1..(i - 1) : s[j] # sep
       IN  <<SubSeq(s, 1, k - 1)>> \o Split(SubSeq(s, k + 1, Len(s)), sep)

\* the white space of the texts
WhiteSpace == {Space, "\t", "\r", "\n"}

\* String.prototype.trim()
RECURSIVE Trim(_)
Trim(s) ==
  IF s = EmptyString THEN s
  ELSE IF Head(s) \in WhiteSpace THEN Trim(Tail(s))
  ELSE IF s[Len(s)] \in WhiteSpace THEN Trim(SubSeq(s, 1, Len(s) - 1))
  ELSE s

\* String.prototype.toLowerCase(), on the letters the inputs contain
ToLowerCase(s) ==
  [i \in 1..Len(s) |->
     CASE s[i] = "P" -> "p" [] s[i] = "R" -> "r" [] s[i] = "E" -> "e"
       [] s[i] = "S" -> "s" [] s[i] = "N" -> "n" [] s[i] = "T" -> "t"
       [] s[i] = "J" -> "j" [] s[i] = "M" -> "m" [] OTHER -> s[i]]

\* `x || null` on a string or null/undefined: the empty string is falsy
OrNull(s) == IF s = Null \/ s = EmptyString THEN Null ELSE s

\* `text?.split('–')[k] || null`, k counted from 0
SplitPart(text, k) ==
  IF text = Null THEN Null
  ELSE LET parts == Split(text, EnDash)
       IN  IF k + 1 <= Len(parts) THEN OrNull(parts[k + 1]) ELSE Null

\* `dateRangeElement?.textContent || null` for the date-range texts of the
\* documents: no element, closed and open-ended ranges, an end before the
\* start, no en-dash, an empty end part, 'present' in another case
DateRangeTexts ==
  { Null,
    Jan2018 \o <<Space, EnDash, Space>> \o Mar2019,
    Jan2018 \o <<Space, EnDash, Space>> \o Present,
    Mar2019 \o <<Space, EnDash, Space>> \o Jan2018,
    Jan2018,
    Jan2018 \o <<Space, EnDash>>,
    Mar2019 \o <<EnDash, Space>> \o PresentLower \o <<Space>> }

\* ------------------------------------------------ extraction: raw records
\* one node of '#experience-section ul > .ember-view'
RawExperience(node) ==
  LET dateRangeText == OrNull(node.dateRange)
      startDatePart == SplitPart(dateRangeText, 0)
      startDate == IF startDatePart = Null THEN Null ELSE OrNull(Trim(startDatePart))
      endDatePart == SplitPart(dateRangeText, 1)
      endDateIsPresent ==
        IF endDatePart = Null THEN FALSE
        ELSE ToLowerCase(Trim(endDatePart)) = PresentLower
      endDate == IF endDatePart # Null /\ ~endDateIsPresent THEN Trim(endDatePart) ELSE Present
  IN  [title |-> OrNull(node.title), startDate |-> startDate, endDate |-> endDate,
       endDateIsPresent |-> endDateIsPresent]

\* one node of '.pv-profile-section.volunteering-section ul > li.ember-view'
RawVolunteerExperience(node) ==
  LET dateRangeText == OrNull(node.dateRange)
      startDatePart == SplitPart(dateRangeText, 0)
      startDate == IF startDatePart = Null THEN Null ELSE OrNull(Trim(startDatePart))
      endDatePart == SplitPart(dateRangeText, 1)
      endDateIsPresent ==
        IF endDatePart = Null THEN FALSE
        ELSE ToLowerCase(Trim(endDatePart)) = PresentLower
      endDate == IF endDatePart # Null /\ ~endDateIsPresent THEN Trim(endDatePart) ELSE Present
  IN  [title |-> OrNull(node.title), startDate |-> startDate, endDate |-> endDate,
       endDateIsPresent |-> endDateIsPresent]

\* one node of '#education-section ul > .ember-view'
RawEducation(node) ==
  [schoolName |-> OrNull(node.schoolName),
   startDate |-> OrNull(node.time0), endDate |-> OrNull(node.time1)]

\* the indices of an array, for `for (const node of nodes)` and `array.map`
Indices(s) == 1..Len(s)

\* one node of '.pv-skill-categories-section ol > .ember-view'
ParseInt(s) ==
  CASE s = <<"0">> -> 0 [] s = <<"3">> -> 3 [] s = <<"1", "2">> -> 12

Skill(node) ==
  [skillName |-> IF node.skillName = Null THEN Null ELSE Trim(node.skillName),
   endorsementCount |->
     IF node.endorsementCount = Null THEN 0
     ELSE ParseInt(IF Trim(node.endorsementCount) = EmptyString
                   THEN <<"0">> ELSE Trim(node.endorsementCount))]

\* ------------------------------------------------ normalization
\* A date or a number that may be null is a set with at most one element.
NoValue == {}

\* the day `new Date()` falls on, in days since 1 January 1970
Today == 19000

\* ./utils formatDate: a month-and-year text gives the first day of that
\* month, any other text and null give null.  Whether the sentinel 'Present'
\* gives the current date is left open (sentinelIsDate).
formatDate(text, asNow) ==
  CASE text = Jan2018 -> {17532}
    [] text = Mar2019 -> {17956}
    [] text = Present /\ asNow -> {Today}
    [] OTHER -> NoValue

\* ./utils getDurationInDays: whole days from start to end; null when a
\* bound is null or the end precedes the start
getDurationInDays(startDate, endDate) ==
  IF startDate = NoValue \/ endDate = NoValue THEN NoValue
  ELSE LET s == CHOOSE d \in startDate : TRUE
           e == CHOOSE d \in endDate : TRUE
       IN  IF e < s THEN NoValue ELSE {e - s}

\* ./utils getCleanText: null stays null, text loses the surrounding blanks
getCleanText(text) == IF text = Null THEN Null ELSE Trim(text)

Experience(rawExperience, asNow) ==
  LET startDate == formatDate(rawExperience.startDate, asNow)
      endDate == formatDate(rawExperience.endDate, asNow)
      endDateIsPresent == rawExperience.endDateIsPresent
      durationInDaysWithEndDate ==
        IF startDate # NoValue /\ endDate # NoValue /\ ~endDateIsPresent
        THEN getDurationInDays(startDate, endDate) ELSE NoValue
      durationInDaysForPresentDate ==
        IF endDateIsPresent /\ startDate # NoValue
        THEN getDurationInDays(startDate, {Today}) ELSE NoValue
      durationInDays ==
        IF endDateIsPresent THEN durationInDaysForPresentDate ELSE durationInDaysWithEndDate
  IN  [title |-> getCleanText(rawExperience.title), startDate |-> startDate,
       endDate |-> endDate, endDateIsPresent |-> endDateIsPresent,
       durationInDays |-> durationInDays]

Education(rawEducation, asNow) ==
  LET startDate == formatDate(rawEducation.startDate, asNow)
      endDate == formatDate(rawEducation.endDate, asNow)
  IN  [schoolName |-> getCleanText(rawEducation.schoolName), startDate |-> startDate,
       endDate |-> endDate, durationInDays |-> getDurationInDays(startDate, endDate)]

VolunteerExperience(rawVolunteerExperience, asNow) ==
  LET startDate == formatDate(rawVolunteerExperience.startDate, asNow)
      endDate == formatDate(rawVolunteerExperience.endDate, asNow)
  IN  [title |-> getCleanText(rawVolunteerExperience.title), startDate |-> startDate,
       endDate |-> endDate, endDateIsPresent |-> rawVolunteerExperience.endDateIsPresent,
       durationInDays |-> getDurationInDays(startDate, endDate)]

\* ------------------------------------------------ extraction: documents
MaxNodes == 3

Developer == <<" ", "D", "e", "v">>

Tutor == <<"T", "u", "t", "o", "r", " ">>

School == <<"M", "I", "T">>

ExperienceNodes == {[title |-> Developer, dateRange |-> d] : d \in DateRangeTexts}

VolunteerNodes == {[title |-> Tutor, dateRange |-> d] : d \in DateRangeTexts}

\* the two `time` elements of '.pv-entity__dates': both, swapped, the second missing
EducationNodes ==
  { [schoolName |-> School, time0 |-> Jan2018, time1 |-> Mar2019],
    [schoolName |-> School, time0 |-> Mar2019, time1 |-> Jan2018],
    [schoolName |-> School, time0 |-> Jan2018, time1 |-> Null] }

SkillNodes ==
  { [skillName |-> <<" ", "G", "o">>, endorsementCount |-> <<"1", "2">>],
    [skillName |-> <<"C">>, endorsementCount |-> <<" ">>],
    [skillName |-> Null, endorsementCount |-> Null] }

Sections == {"experiences", "education", "volunteerExperiences", "skills"}

NoRecords == [s \in Sections |-> <<>>]

\* outside a run()'s extraction there is no document
NoData ==
  /\ doc = NoRecords
  /\ at = "none"
  /\ raw = NoRecords
  /\ out = NoRecords
  /\ sentinelIsDate = FALSE

\* ------------------------------------------------ extraction: steps of run()
\* `await page.$$eval('#experience-section ul > .ember-view', ...)`
EvalExperiences ==
  /\ at = "experiences"
  /\ raw' = [raw EXCEPT !.experiences = [i \in Indices(doc.experiences) |-> RawExperience(doc.experiences[i])]]
  /\ at' = "experiences.map"
  /\ UNCHANGED <<doc, out, sentinelIsDate>>
  /\ UNCHANGED <<scraperVars, newVars, loadVars, requestVars>>

\* `rawExperiencesData.map(...)`, up to the next await
\* (a normalization that gives null for a section without records)
MapExperiences_NullWhenEmpty ==
  /\ at = "experiences.map"
  /\ out' = [out EXCEPT !.experiences =
               IF raw.experiences = <<>> THEN Null
               ELSE [i \in Indices(raw.experiences) |->
                       Experience(raw.experiences[i], sentinelIsDate)]]
  /\ at' = "education"
  /\ UNCHANGED <<doc, raw, sentinelIsDate>>
  /\ UNCHANGED <<scraperVars, newVars, loadVars, requestVars>>

MapExperiences ==
  /\ at = "experiences.map"
  /\ out' = [out EXCEPT !.experiences =
               [i \in Indices(raw.experiences) |->
                  Experience(raw.experiences[i], sentinelIsDate)]]
  /\ at' = "education"
  /\ UNCHANGED <<doc, raw, sentinelIsDate>>
  /\ UNCHANGED <<scraperVars, newVars, loadVars, requestVars>>

\* `await page.$$eval('#education-section ul > .ember-view', ...)`
EvalEducation ==
  /\ at = "education"
  /\ raw' = [raw EXCEPT !.education = [i \in Indices(doc.education) |-> RawEducation(doc.education[i])]]
  /\ at' = "education.map"
  /\ UNCHANGED <<doc, out, sentinelIsDate>>
  /\ UNCHANGED <<scraperVars, newVars, loadVars, requestVars>>

MapEducation ==
  /\ at = "education.map"
  /\ out' = [out EXCEPT !.education =
               [i \in Indices(raw.education) |->
                  Education(raw.education[i], sentinelIsDate)]]
  /\ at' = "volunteerExperiences"
  /\ UNCHANGED <<doc, raw, sentinelIsDate>>
  /\ UNCHANGED <<scraperVars, newVars, loadVars, requestVars>>

\* `await page.$$eval('.pv-profile-section.volunteering-section ...', ...)`
EvalVolunteerExperiences ==
  /\ at = "volunteerExperiences"
  /\ raw' = [raw EXCEPT !.volunteerExperiences =
               [i \in Indices(doc.volunteerExperiences) |->
                  RawVolunteerExperience(doc.volunteerExperiences[i])]]
  /\ at' = "volunteerExperiences.map"
  /\ UNCHANGED <<doc, out, sentinelIsDate>>
  /\ UNCHANGED <<scraperVars, newVars, loadVars, requestVars>>

MapVolunteerExperiences ==
  /\ at = "volunteerExperiences.map"
  /\ out' = [out EXCEPT !.volunteerExperiences =
               [i \in Indices(raw.volunteerExperiences) |->
                  VolunteerExperience(raw.volunteerExperiences[i], sentinelIsDate)]]
  /\ at' = "skills"
  /\ UNCHANGED <<doc, raw, sentinelIsDate>>
  /\ UNCHANGED <<scraperVars, newVars, loadVars, requestVars>>

\* `await page.$$eval('.pv-skill-categories-section ol > .ember-view', ...)`
EvalSkills ==
  /\ at = "skills"
  /\ out' = [out EXCEPT !.skills = [i \in Indices(doc.skills) |-> Skill(doc.skills[i])]]
  /\ at' = "return"
  /\ UNCHANGED <<doc, raw, sentinelIsDate>>
  /\ UNCHANGED <<scraperVars, newVars, loadVars, requestVars>>

\* `return { userProfile, experiences, education, volunteerExperiences, skills }`
Return ==
  /\ at = "return"
  /\ at' = "returned"
  /\ UNCHANGED <<doc, raw, out, sentinelIsDate>>
  /\ UNCHANGED <<scraperVars, newVars, loadVars, requestVars>>

\* ------------------------------------------------ expansion passes of run()
MaxButtons == 2

\* expandButtonsSelectors, each named by the section it belongs to
expandButtonsSelectors == <<"About", "Experience", "Education", "Skills">>

\* seeMoreButtonsSelectors: '.pv-entity__description ... .lt-line-clamp__more[href="#"]'
\* and '.lt-line-clamp__more[href="#"]:not(.lt-line-clamp__ellipsis--dummy)'
seeMoreButtonsSelectors == <<"description", "no dummy">>

\* a 'see more' link is inside the last line of a description or not, and is a
\* dummy or not; one that is neither is matched by no selector
ElementKinds == {"both", "description", "no dummy"}

Matches(kind, selector) == kind = "both" \/ kind = selector

\* an entry of the log: a lookup (page.$, page.$$), a click or the delay
Event(pass, event, selector, element, result) ==
  [pass |-> pass, event |-> event, selector |-> selector, element |-> element,
   result |-> result]

\* how an awaited call ended
Settled(ok) == IF ok THEN "ok" ELSE "throws"

\* `page.$$(selector)`: the matching elements of the document, in document order
QuerySelectorAll(selector) ==
  SelectSeq([k \in 1..Len(dom.kind) |-> k],
            LAMBDA e : e \in dom.present /\ Matches(dom.kind[e], selector))

\* run() is not in its expansion passes
NoExpand ==
  /\ xp = [pc |-> "none", i |-> 0, buttons |-> <<>>, b |-> 0]
  /\ dom = [kind |-> <<>>, present |-> {}]
  /\ xlog = <<>>

\* the next round of `for (const buttonSelector of expandButtonsSelectors)`,
\* or `await page.waitFor(100)` after the last one
NextExpandButton ==
  IF xp.i < Len(expandButtonsSelectors)
  THEN [xp EXCEPT !.pc = "page.$", !.i = xp.i + 1]
  ELSE [xp EXCEPT !.pc = "waitFor", !.i = 0]

\* (a lookup whose exception is not caught)
ExpandLookup_Uncaught(outcome) ==
  /\ xp.pc = "page.$"
  /\ outcome \in {"null", "element", "throws"}
  /\ xlog' = Append(xlog, Event(1, "lookup", expandButtonsSelectors[xp.i], 0,
                                outcome))
  /\ xp' = IF outcome = "element" THEN [xp EXCEPT !.pc = "page.click"]
           ELSE IF outcome = "throws" THEN [xp EXCEPT !.pc = "failed"]
           ELSE NextExpandButton
  /\ UNCHANGED <<dom, scroll, height, grown>>
  /\ UNCHANGED <<scraperVars, dataVars, newVars, requestVars>>

\* `if (await page.$(buttonSelector) !== null)`, inside try/catch
ExpandLookup(outcome) ==
  /\ xp.pc = "page.$"
  /\ outcome \in {"null", "element", "throws"}
  /\ xlog' = Append(xlog, Event(1, "lookup", expandButtonsSelectors[xp.i], 0,
                                outcome))
  /\ xp' = IF outcome = "element" THEN [xp EXCEPT !.pc = "page.click"]
           ELSE NextExpandButton
  /\ UNCHANGED <<dom, scroll, height, grown>>
  /\ UNCHANGED <<scraperVars, dataVars, newVars, requestVars>>

\* `await page.click(buttonSelector)`, inside the same try/catch
ExpandClick(ok) ==
  /\ xp.pc = "page.click"
  /\ xlog' = Append(xlog, Event(1, "click", expandButtonsSelectors[xp.i], 0, Settled(ok)))
  /\ xp' = NextExpandButton
  /\ UNCHANGED <<dom, scroll, height, grown>>
  /\ UNCHANGED <<scraperVars, dataVars, newVars, requestVars>>

\* the round of the see-more loops that follows the one xp is in, for the
\* button index b: the next button, the next selector, or the end
NextSeeMore(x, b) ==
  IF b <= Len(x.buttons) THEN [x EXCEPT !.pc = "button.click", !.b = b]
  ELSE IF x.i < Len(seeMoreButtonsSelectors)
       THEN [x EXCEPT !.pc = "page.$$", !.i = x.i + 1, !.buttons = <<>>, !.b = 0]
       ELSE [x EXCEPT !.pc = "done", !.i = 0, !.buttons = <<>>, !.b = 0]

\* `await page.waitFor(100)`: not inside a try, a failure ends run()'s try
SettleDelay(ok) ==
  /\ xp.pc = "waitFor"
  /\ xlog' = Append(xlog, Event(1, "waitFor", "none", 0, Settled(ok)))
  /\ xp' = IF ok THEN [xp EXCEPT !.pc = "page.$$", !.i = 1] ELSE [xp EXCEPT !.pc = "failed"]
  /\ UNCHANGED <<dom, scroll, height, grown>>
  /\ UNCHANGED <<scraperVars, dataVars, newVars, requestVars>>

\* `const buttons = await page.$$(seeMoreButtonSelector)`: not inside a try
SeeMoreLookup(ok) ==
  /\ xp.pc = "page.$$"
  /\ xlog' = Append(xlog, Event(2, "lookup", seeMoreButtonsSelectors[xp.i], 0, Settled(ok)))
  /\ xp' = IF ok
           THEN NextSeeMore([xp EXCEPT !.buttons =
                               QuerySelectorAll(seeMoreButtonsSelectors[xp.i])], 1)
           ELSE [xp EXCEPT !.pc = "failed"]
  /\ UNCHANGED <<dom, scroll, height, grown>>
  /\ UNCHANGED <<scraperVars, dataVars, newVars, requestVars>>

\* `await button.click()` inside try/catch; a click that worked may take the
\* link out of the document
SeeMoreClick(ok, stays) ==
  /\ xp.pc = "button.click"
  /\ ok \/ stays
  /\ xlog' = Append(xlog, Event(2, "click", seeMoreButtonsSelectors[xp.i],
                                xp.buttons[xp.b], Settled(ok)))
  /\ dom' = IF stays THEN dom ELSE [dom EXCEPT !.present = @ \ {xp.buttons[xp.b]}]
  /\ xp' = NextSeeMore(xp, xp.b + 1)
  /\ UNCHANGED <<scroll, height, grown>>
  /\ UNCHANGED <<scraperVars, dataVars, newVars, requestVars>>

\* ------------------------------------------------ autoScroll
MaxHeight == 4
MaxGrow == 2

\* `var distance = 500`
distance == 500

\* scroll heights of the document when autoScroll starts, up to MaxHeight
\* scroll steps
Heights == {h \in 0..(MaxHeight * distance) : h % (distance \div 2) = 0}

\* what a lazy load adds to the scroll height
Growths == {distance \div 2, distance, 2 * distance}

\* run() is not in autoScroll
NoScroll ==
  /\ scroll = [pc |-> "none", totalHeight |-> 0, scrollHeight |-> 0, steps |-> 0]
  /\ height = 0
  /\ grown = [times |-> 0, loading |-> FALSE]

\* (a callback that stops only when the distance is beyond the height)
Tick_StopsBeyond ==
  /\ scroll.pc = "interval"
  /\ LET scrollHeight == height
         totalHeight == scroll.totalHeight + distance
     IN scroll' = [pc |-> IF totalHeight > scrollHeight THEN "resolved" ELSE "interval",
                   totalHeight |-> totalHeight,
                   scrollHeight |-> scrollHeight,
                   steps |-> scroll.steps + 1]
  /\ grown' = [grown EXCEPT !.loading = TRUE]
  /\ UNCHANGED <<height, xp, dom, xlog>>
  /\ UNCHANGED <<scraperVars, dataVars, newVars, requestVars>>

\* the callback of setInterval: read scrollHeight, scrollBy(0, distance),
\* add distance to totalHeight, and clearInterval and resolve once totalHeight
\* has reached the height that was read; the scroll makes the page load more
Tick ==
  /\ scroll.pc = "interval"
  /\ LET scrollHeight == height
         totalHeight == scroll.totalHeight + distance
     IN scroll' = [pc |-> IF totalHeight >= scrollHeight THEN "resolved" ELSE "interval",
                   totalHeight |-> totalHeight,
                   scrollHeight |-> scrollHeight,
                   steps |-> scroll.steps + 1]
  /\ grown' = [grown EXCEPT !.loading = TRUE]
  /\ UNCHANGED <<height, xp, dom, xlog>>
  /\ UNCHANGED <<scraperVars, dataVars, newVars, requestVars>>

\* the page appends the content that a scroll step made it load: it arrives
\* between two callbacks or after the last one
Grow(d) ==
  /\ grown.loading
  /\ grown.times < MaxGrow
  /\ height' = height + d
  /\ grown' = [times |-> grown.times + 1, loading |-> FALSE]
  /\ UNCHANGED <<scroll, xp, dom, xlog>>
  /\ UNCHANGED <<scraperVars, dataVars, newVars, requestVars>>

NoLoad == NoExpand /\ NoScroll

\* ------------------------------------------------ request interception
MaxLines == 2

\* `const blockedResources = [...]`
blockedResources ==
  {"image", "media", "font", "texttrack", "object", "beacon", "csp_report", "imageset"}

\* `const blockedResourcesByHost = [...]`
blockedResourcesByHost == {"script", "xhr", "fetch", "document"}

\* what req.resourceType() returns: the types the handler names and the other
\* types of the browser
ResourceTypes ==
  blockedResources \cup blockedResourcesByHost
    \cup {"stylesheet", "eventsource", "websocket", "manifest", "other"}

\* the host names that getBlockedHosts adds to those of the list
CdnEmbedlyCom == <<"c", "d", "n", ".", "e", "m", "b", "e", "d", "l", "y", ".", "c",
  "o", "m">>

HardcodedHosts ==
  {
    <<"s", "t", "a", "t", "i", "c", ".", "c", "h", "a", "r", "t", "b", "e", "a", "t",
      ".", "c", "o", "m">>,
    <<"s", "c", "d", "n", ".", "c", "x", "e", "n", "s", "e", ".", "c", "o", "m">>,
    <<"a", "p", "i", ".", "c", "x", "e", "n", "s", "e", ".", "c", "o", "m">>,
    <<"w", "w", "w", ".", "g", "o", "o", "g", "l", "e", "t", "a", "g", "m", "a", "n",
      "a", "g", "e", "r", ".", "c", "o", "m">>,
    <<"c", "o", "n", "n", "e", "c", "t", ".", "f", "a", "c", "e", "b", "o", "o", "k",
      ".", "n", "e", "t">>,
    <<"p", "l", "a", "t", "f", "o", "r", "m", ".", "t", "w", "i", "t", "t", "e", "r",
      ".", "c", "o", "m">>,
    <<"t", "a", "g", "s", ".", "t", "i", "q", "c", "d", "n", ".", "c", "o", "m">>,
    <<"d", "e", "v", ".", "v", "i", "s", "u", "a", "l", "w", "e", "b", "s", "i", "t",
      "e", "o", "p", "t", "i", "m", "i", "z", "e", "r", ".", "c", "o", "m">>,
    <<"s", "m", "a", "r", "t", "l", "o", "c", "k", ".", "g", "o", "o", "g", "l", "e",
      ".", "c", "o", "m">>,
    CdnEmbedlyCom }

\* host names of the requests: a host of the site, two trackers and a host
\* that the list names for another address

WwwLinkedInCom == <<"w", "w", "w", ".", "l", "i", "n", "k", "e", "d", "i", "n", ".",
  "c", "o", "m">>

AdsExampleCom == <<"a", "d", "s", ".", "e", "x", "a", "m", "p", "l", "e", ".", "c",
  "o", "m">>

PixelExampleNet == <<"p", "i", "x", "e", "l", ".", "e", "x", "a", "m", "p", "l", "e",
  ".", "n", "e", "t">>

LocalExampleOrg == <<"l", "o", "c", "a", "l", ".", "e", "x", "a", "m", "p", "l", "e",
  ".", "o", "r", "g">>

Zero == <<"0", ".", "0", ".", "0", ".", "0">>

Loopback == <<"1", "2", "7", ".", "0", ".", "0", ".", "1">>

\* lines of a hosts file: an entry, an entry of a file with CRLF line ends, an
\* entry for another address, a comment, an empty line
HostsLines ==
  { Zero \o <<Space>> \o AdsExampleCom,
    Zero \o <<Space>> \o PixelExampleNet \o <<"\r">>,
    Loopback \o <<Space>> \o LocalExampleOrg,
    <<"#", Space>> \o AdsExampleCom,
    EmptyString }

\* the lines joined by '\n'
RECURSIVE JoinLines(_)
JoinLines(lines) ==
  IF lines = <<>> THEN EmptyString
  ELSE IF Len(lines) = 1 THEN lines[1]
  ELSE lines[1] \o <<"\n">> \o JoinLines(Tail(lines))

\* the texts of './blocked-hosts': hosts files of up to MaxLines lines
HostsFiles ==
  {JoinLines(lines) : lines \in UNION {[1..n -> HostsLines] : n \in 0..MaxLines}}

\* getBlockedHosts(): the keys that are set to true
getBlockedHosts ==
  LET blockedHostsArray == Split(blockedHostsList, "\n")
      frags(curr) == Split(curr, Space)
  IN  {Trim(frags(blockedHostsArray[k])[2]) :
         k \in {j \in 1..Len(blockedHostsArray) :
                  /\ Len(frags(blockedHostsArray[j])) > 1
                  /\ frags(blockedHostsArray[j])[1] = Zero}}
      \cup HardcodedHosts

\* getHostname(req.url()): the host name of the URL, or null
getHostname(req) == req.hostname

\* no request has been intercepted
NoRequest ==
  /\ request = [resourceType |-> "none", hostname |-> Null]
  /\ blockedHostsList = EmptyString
  /\ blockedHosts = {}
  /\ resolved = <<>>

\* (a handler that blocks by host whatever the resource type is)
OnRequest_AnyTypeByHost(req) ==
  /\ request.resourceType = "none"
  /\ request' = req
  /\ resolved' =
       IF req.resourceType \in blockedResources
       THEN <<"abort">>
       ELSE LET hostname == getHostname(req)
            IN  IF /\ hostname # Null /\ hostname # EmptyString
                   /\ hostname \in blockedHosts
                THEN <<"abort">>
                ELSE <<"continue">>
  /\ UNCHANGED <<blockedHostsList, blockedHosts>>
  /\ UNCHANGED <<scraperVars, dataVars, newVars, loadVars>>

\* `page.on('request', (req) => {...})`: the calls of req.abort() and
\* req.continue() that the handler makes for req; it reads and writes nothing
\* that lasts from one request to the next, so a behaviour has one request
OnRequest(req) ==
  /\ request.resourceType = "none"
  /\ request' = req
  /\ resolved' =
       IF req.resourceType \in blockedResources
       THEN <<"abort">>
       ELSE LET hostname == getHostname(req)
            IN  IF /\ req.resourceType \in blockedResourcesByHost
                   /\ hostname # Null /\ hostname # EmptyString
                   /\ hostname \in blockedHosts
                THEN <<"abort">>
                ELSE <<"continue">>
  /\ UNCHANGED <<blockedHostsList, blockedHosts>>
  /\ UNCHANGED <<scraperVars, dataVars, newVars, loadVars>>

\* ------------------------------------------------ constructor
\* JavaScript values of the option fields
Undefined == [t |-> "undefined", s |-> EmptyString, n |-> 0, b |-> FALSE]

JsNull == [t |-> "null", s |-> EmptyString, n |-> 0, b |-> FALSE]

JsString(x) == [t |-> "string", s |-> x, n |-> 0, b |-> FALSE]

JsNumber(x) == [t |-> "number", s |-> EmptyString, n |-> x, b |-> FALSE]

JsBoolean(x) == [t |-> "boolean", s |-> EmptyString, n |-> 0, b |-> x]

\* `typeof x`
TypeOf(x) == IF x.t = "null" THEN "object" ELSE x.t

\* x in a condition: undefined, null, '', 0 and false are falsy
Truthy(x) ==
  CASE x.t = "string" -> x.s # EmptyString
    [] x.t = "number" -> x.n # 0
    [] x.t = "boolean" -> x.b
    [] OTHER -> FALSE

\* the option objects a caller may pass
OptionInputs ==
  [sessionCookieValue : {Undefined, JsString(EmptyString), JsString(<<"A", "Q">>),
                         JsNumber(0), JsNumber(5), JsBoolean(TRUE)},
   userAgent : {Undefined, JsNull, JsString(EmptyString), JsString(<<"U", "A">>),
                JsNumber(0), JsNumber(5), JsBoolean(FALSE)},
   keepAlive : {Undefined, JsNull, JsBoolean(TRUE), JsBoolean(FALSE), JsNumber(0)},
   timeout : {Undefined, JsNumber(10000), JsString(<<"1", "0">>)},
   headless : {Undefined, JsBoolean(TRUE), JsString(<<"n", "o">>)}]

ValidOptions ==
  [sessionCookieValue |-> JsString(<<"A", "Q">>), userAgent |-> Undefined,
   keepAlive |-> Undefined, timeout |-> Undefined, headless |-> Undefined]

\* the tests of the constructor, in order: one of them throws
ConstructorThrows(o) ==
  \/ ~Truthy(o.sessionCookieValue)
  \/ Truthy(o.sessionCookieValue) /\ TypeOf(o.sessionCookieValue) # "string"
  \/ Truthy(o.userAgent) /\ TypeOf(o.userAgent) # "string"
  \/ o.keepAlive # Undefined /\ TypeOf(o.keepAlive) # "boolean"
  \/ o.timeout # Undefined /\ TypeOf(o.timeout) # "number"
  \/ o.headless # Undefined /\ TypeOf(o.headless) # "boolean"

\* options.keepAlive after `Object.assign(this.options, userDefinedOptions)`
MergedKeepAlive(o) ==
  IF o.keepAlive = Undefined THEN DefaultKeepAlive ELSE o.keepAlive.b

\* `new LinkedInProfileScraper(userDefinedOptions)`
Constructor ==
  /\ instance = "none"
  /\ IF ConstructorThrows(userDefinedOptions)
     THEN /\ instance' = "threw"
          /\ UNCHANGED keepAlive
     ELSE /\ instance' = "constructed"
          /\ keepAlive' = MergedKeepAlive(userDefinedOptions)
  /\ UNCHANGED <<browser, launched, live, pages, closes, kills, killed, ex, call, faults,
                 lastRunOk, conc, userDefinedOptions>>
  /\ UNCHANGED <<dataVars, loadVars, requestVars>>

\* an instance made with a session cookie and keepAlive left out or true
Constructed ==
  /\ userDefinedOptions \in
       {[ValidOptions EXCEPT !.keepAlive = k] : k \in {Undefined, JsBoolean(TRUE)}}
  /\ instance = "constructed"
  /\ keepAlive = MergedKeepAlive(userDefinedOptions)

InitState ==
  /\ browser = 0
  /\ launched = 0
  /\ live = [b \in Browsers |-> FALSE]
  /\ pages = [b \in Browsers |-> <<>>]
  /\ closes = [b \in Browsers |-> 0]
  /\ kills = [b \in Browsers |-> 0]
  /\ killed = [b \in Browsers |-> FALSE]
  /\ ex = <<>>
  /\ call = [t \in Tasks |-> IdleCall]
  /\ lastRunOk = FALSE
  /\ NoData
  /\ NoLoad
  /\ NoRequest
  /\ Constructed

\* the caller awaits each call before it starts the next one
Init == InitState /\ conc = FALSE /\ faults = 0

\* the caller may start a run() while another run() is in flight; the
\* environment calls then fail only where they act on a closed page or browser
InitConc == InitState /\ conc = TRUE /\ faults = MaxFaults

Next ==
  \/ \E t \in Tasks : StartSetup(t)
  \/ \E t \in Tasks, ok \in BOOLEAN : Launch(t, ok)
  \/ \E t \in Tasks, ok \in BOOLEAN : CpNewPage(t, ok)
  \/ \E t \in Tasks, ok \in BOOLEAN : CpPages(t, ok)
  \/ \E t \in Tasks, ok \in BOOLEAN : CpCloseFirst(t, ok)
  \/ \E t \in Tasks, ok \in BOOLEAN : CpConfigure(t, ok)
  \/ \E t \in Tasks, ok \in BOOLEAN, u \in {"/login", "/feed"} : ChkGoto(t, ok, u)
  \/ \E t \in Tasks, ok \in BOOLEAN : ChkClose(t, ok)
  \/ \E t \in Tasks, u \in Urls : StartRun(t, u)
  \/ \E t \in Tasks, ok \in BOOLEAN : RunGoto(t, ok)
  \/ \E t \in Tasks, ok \in BOOLEAN : RunScroll(t, ok)
  \/ \E t \in Tasks, ok \in BOOLEAN : RunExpand(t, ok)
  \/ \E t \in Tasks, ok \in BOOLEAN : RunProfile(t, ok)
  \/ \E t \in Tasks, ok \in BOOLEAN : RunExperiences(t, ok)
  \/ \E t \in Tasks, ok \in BOOLEAN : RunEducation(t, ok)
  \/ \E t \in Tasks, ok \in BOOLEAN : RunVolunteer(t, ok)
  \/ \E t \in Tasks, ok \in BOOLEAN : RunSkills(t, ok)
  \/ \E t \in Tasks, ok \in BOOLEAN : RunFinish(t, ok)
  \/ \E t \in Tasks : StartClose(t)
  \/ \E t \in Tasks : AwaitClose(t)
  \/ \E i \in 1..MaxEx, ok \in BOOLEAN : ExPageClose(i, ok)
  \/ \E i \in 1..MaxEx, ok \in BOOLEAN : ExBrowserClose(i, ok)
  \/ \E i \in 1..MaxEx, ok \in BOOLEAN : KillCallback(i, ok)

Spec == Init /\ [][Next]_vars

SpecConc == InitConc /\ [][Next]_vars
\* a run() that has reached its extraction code, on a document whose sections
\* have at most MaxNodes nodes together
InitData ==
  /\ browser = 1
  /\ launched = 1
  /\ live = [b \in Browsers |-> b = 1]
  /\ pages = [b \in Browsers |-> IF b = 1 THEN <<1>> ELSE <<>>]
  /\ closes = [b \in Browsers |-> 0]
  /\ kills = [b \in Browsers |-> 0]
  /\ killed = [b \in Browsers |-> FALSE]
  /\ ex = <<>>
  /\ call = [t \in Tasks |->
               IF t = 1
               THEN [IdleCall EXCEPT !.op = "run", !.pc = "run_experiences", !.page = 1,
                                     !.pre = TRUE, !.got = TRUE, !.arg = UrlProfile,
                                     !.log = <<Stage("PageOpen"), Stage("Navigated"),
                                               Stage("ContentLoaded"), Extracted("profile"),
                                               Normalized("profile")>>]
               ELSE IdleCall]
  /\ lastRunOk = FALSE
  /\ conc = FALSE
  /\ faults = 0
  /\ \E ne \in 0..MaxNodes : \E nd \in 0..(MaxNodes - ne) :
       \E nv \in 0..(MaxNodes - ne - nd) : \E ns \in 0..(MaxNodes - ne - nd - nv) :
         doc \in [experiences : [1..ne -> ExperienceNodes],
                  education : [1..nd -> EducationNodes],
                  volunteerExperiences : [1..nv -> VolunteerNodes],
                  skills : [1..ns -> SkillNodes]]
  /\ at = "experiences"
  /\ raw = NoRecords
  /\ out = NoRecords
  /\ sentinelIsDate \in BOOLEAN
  /\ Constructed /\ keepAlive
  /\ NoLoad
  /\ NoRequest

NextData ==
  \/ EvalExperiences
  \/ MapExperiences
  \/ EvalEducation
  \/ MapEducation
  \/ EvalVolunteerExperiences
  \/ MapVolunteerExperiences
  \/ EvalSkills
  \/ Return

SpecData == InitData /\ [][NextData]_vars

\* before `new LinkedInProfileScraper(userDefinedOptions)`, for every option object
InitNew ==
  /\ browser = 0
  /\ launched = 0
  /\ live = [b \in Browsers |-> FALSE]
  /\ pages = [b \in Browsers |-> <<>>]
  /\ closes = [b \in Browsers |-> 0]
  /\ kills = [b \in Browsers |-> 0]
  /\ killed = [b \in Browsers |-> FALSE]
  /\ ex = <<>>
  /\ call = [t \in Tasks |-> IdleCall]
  /\ keepAlive = DefaultKeepAlive
  /\ lastRunOk = FALSE
  /\ conc = FALSE
  /\ faults = 0
  /\ NoData
  /\ NoLoad
  /\ NoRequest
  /\ userDefinedOptions \in OptionInputs
  /\ instance = "none"

NextNew == Constructor

SpecNew == InitNew /\ [][NextNew]_vars

\* a run() that has passed `stages` and is at pc, on an instance whose
\* setup() left a running browser
Running(pc, stages) ==
  /\ browser = 1
  /\ launched = 1
  /\ live = [b \in Browsers |-> b = 1]
  /\ pages = [b \in Browsers |-> IF b = 1 THEN <<1>> ELSE <<>>]
  /\ closes = [b \in Browsers |-> 0]
  /\ kills = [b \in Browsers |-> 0]
  /\ killed = [b \in Browsers |-> FALSE]
  /\ ex = <<>>
  /\ call = [t \in Tasks |->
               IF t = 1
               THEN [IdleCall EXCEPT !.op = "run", !.pc = pc, !.page = 1, !.pre = TRUE,
                                     !.got = TRUE, !.arg = UrlProfile, !.log = stages]
               ELSE IdleCall]
  /\ lastRunOk = FALSE
  /\ conc = FALSE
  /\ faults = 0
  /\ Constructed
  /\ NoData

\* run() after autoScroll, on a document with up to MaxButtons 'see more' links
InitExpand ==
  /\ Running("run_expand", <<Stage("PageOpen"), Stage("Navigated")>>)
  /\ xp = [pc |-> "page.$", i |-> 1, buttons |-> <<>>, b |-> 0]
  /\ \E n \in 0..MaxButtons :
       dom \in [kind : [1..n -> ElementKinds], present : {1..n}]
  /\ xlog = <<>>
  /\ NoScroll
  /\ NoRequest

NextExpand ==
  \/ \E outcome \in {"null", "element", "throws"} : ExpandLookup(outcome)
  \/ \E ok \in BOOLEAN : ExpandClick(ok)
  \/ \E ok \in BOOLEAN : SettleDelay(ok)
  \/ \E ok \in BOOLEAN : SeeMoreLookup(ok)
  \/ \E ok \in BOOLEAN, stays \in BOOLEAN : SeeMoreClick(ok, stays)

SpecExpand == InitExpand /\ [][NextExpand]_vars

\* run() inside `await autoScroll(page)`: the timer is set and has not fired
InitScroll ==
  /\ Running("run_scroll", <<Stage("PageOpen"), Stage("Navigated")>>)
  /\ scroll = [pc |-> "interval", totalHeight |-> 0, scrollHeight |-> 0, steps |-> 0]
  /\ height \in Heights
  /\ grown = [times |-> 0, loading |-> FALSE]
  /\ NoExpand
  /\ NoRequest

NextScroll ==
  \/ Tick
  \/ \E d \in Growths : Grow(d)

\* setInterval calls the callback every 100 ms until clearInterval: a timer
\* that is set fires
SpecScroll == InitScroll /\ [][NextScroll]_vars /\ WF_vars(Tick)

\* a hosts file and a page of run() that createPage has returned:
\* `const blockedHosts = this.getBlockedHosts()`, request interception is on
InitRequest ==
  /\ Running("run_goto", <<Stage("PageOpen")>>)
  /\ request = [resourceType |-> "none", hostname |-> Null]
  /\ blockedHostsList \in HostsFiles
  /\ blockedHosts = getBlockedHosts
  /\ resolved = <<>>
  /\ NoLoad

\* the requests of the page
Requests ==
  [resourceType : ResourceTypes,
   hostname : {Null, WwwLinkedInCom, AdsExampleCom, PixelExampleNet, LocalExampleOrg,
               CdnEmbedlyCom}]

NextRequest == \E req \in Requests : OnRequest(req)

SpecRequest == InitRequest /\ [][NextRequest]_vars

\* ---------------------------------------------------------------- properties
RunOf(t) == call[t].op = "run"

SetupOf(t) == call[t].op = "setup"

\* C1: when a run() that passed its precondition checks rejects, the browser
\* of the instance has been torn down: gracefully closed, its process
\* force-killed and no longer running.
C1_RunFailureTearsDownBrowser ==
  \A t \in Tasks :
    (RunOf(t) /\ call[t].pre /\ call[t].pc = "rejected")
      => (closes[browser] >= 1 /\ killed[browser] /\ ~live[browser])

\* C2: when setup() rejects, no browser process launched by that setup()
\* call is still running.
C2_SetupFailureLeavesNoProcess ==
  \A t \in Tasks :
    (SetupOf(t) /\ call[t].pc = "rejected" /\ call[t].lb # 0) => ~live[call[t].lb]

\* C3: with keepAlive = false, when run() resolves its page is closed, the
\* browser was gracefully closed, its process was force-killed and is not
\* running, and this.browser no longer holds a browser.
C3_RunWithoutKeepAliveEndsBrowser ==
  \A t \in Tasks :
    (RunOf(t) /\ call[t].pc = "resolved" /\ ~keepAlive)
      => /\ ~IsOpen(call[t].page)
         /\ closes[browser] >= 1
         /\ killed[browser]
         /\ ~live[browser]
         /\ browser = 0

\* C4: with keepAlive = true a run() that resolves has closed its own page
\* and left the browser process running, and a run() that directly follows
\* such a run rejects only if an environment call failed during it.
C4_SecondRunUnderKeepAliveSucceeds ==
  \A t \in Tasks :
    /\ (RunOf(t) /\ call[t].pc = "resolved" /\ keepAlive)
         => (live[browser] /\ ~IsOpen(call[t].page))
    /\ (RunOf(t) /\ call[t].second /\ call[t].pc = "rejected") => call[t].flt

\* C5: at most one browser process launched by the instance is running.
C5_AtMostOneLiveBrowser == Cardinality({b \in Browsers : live[b]}) <= 1

\* C6: once createPage() has closed the first page of the browser, and when
\* it returns, the page it created is open and is the only open page.
C6_CreatePageKeepsItsOwnPage ==
  \A t \in Tasks :
    call[t].pc \in {"cp_cfg", "chk_goto", "run_goto"}
      => (IsOpen(call[t].page) /\ pages[browser] = <<call[t].page>>)

\* C7: setup() resolves only after a launch and a verification whose final
\* URL does not end with /login; when the final URL ends with /login, setup()
\* rejects with SessionExpired, raised after the verification page was closed.
C7_SetupVerifiesSession ==
  \A t \in Tasks :
    SetupOf(t) =>
      /\ call[t].pc = "resolved" => (call[t].lb # 0 /\ call[t].url = "/feed")
      /\ (call[t].url = "/login" /\ ~InFlight(t))
           => (call[t].pc = "rejected" /\ call[t].err = "SessionExpired")
      /\ call[t].err = "SessionExpired" => ~IsOpen(call[t].page)

\* C8: once checkIfLoggedIn() has settled, the page it obtained from
\* createPage() is closed, whichever way it settled.
C8_VerificationPageAlwaysClosed ==
  \A t \in Tasks :
    (SetupOf(t) /\ call[t].got /\ call[t].pc \in {"catch_wait", "rejected", "resolved"})
      => ~IsOpen(call[t].page)

\* C9: a close() called when the browser has already been gracefully closed
\* performs no further browser.close() and starts no further treeKill.
C9_CloseIsIdempotent ==
  \A i \in 1..Len(ex) : ex[i].torn => (~ex[i].acted /\ ex[i].kill = "none")

\* C10: a close() whose treeKill callback reported an error has a rejected
\* promise.
C10_KillFailureRejectsClose ==
  \A i \in 1..Len(ex) : ex[i].kill = "failed" => ex[i].settled = "rejected"

\* C11: a setup() or run() that handled a failure rejects with that first
\* failure, also when the teardown it triggered rejected.
C11_OriginalErrorPropagates ==
  \A t \in Tasks :
    ((RunOf(t) \/ SetupOf(t)) /\ call[t].pc = "rejected" /\ call[t].orig # "none")
      => call[t].err = call[t].orig

\* C12: a run() called while the browser held by the instance is no longer
\* running rejects in its precondition checks, before createPage() is entered.
C12_RunNeedsLiveBrowser ==
  \A t \in Tasks :
    (RunOf(t) /\ call[t].dead) => (call[t].pc = "rejected" /\ ~call[t].pre /\ call[t].page = 0)

\* the inputs that contain 'linkedin.com/'
GoodUrls == {UrlBare, UrlProfile}

\* a step in which invocation t is started as a run()
RunStarts(t) == ~InFlight(t) /\ call'[t] # call[t] /\ call'[t].op = "run"

\* C13: a run() started with no browser set, with an empty profileUrl or with
\* a profileUrl that does not contain 'linkedin.com/' rejects at once, with no
\* page created and nothing of the instance, its browsers, their pages and
\* the close() executions changed.
C13_PreconditionFailureChangesNothing ==
  [][\A t \in Tasks :
       (RunStarts(t) /\ (browser = 0 \/ call'[t].arg \notin GoodUrls))
         => /\ call'[t].pc = "rejected"
            /\ call'[t].page = 0
            /\ UNCHANGED <<browser, launched, live, pages, closes, kills, killed, ex>>]_vars

\* a run() with a foreign URL was rejected while the browser is set and running
C13_Witness ==
  \E t \in Tasks :
    /\ RunOf(t) /\ call[t].pc = "rejected" /\ ~call[t].pre
    /\ call[t].arg = UrlNoSlash
    /\ browser # 0 /\ live[browser]

\* run() t has created its page and has not yet closed it
HoldsPage(t) ==
  RunOf(t) /\ InFlight(t) /\ call[t].page # 0

\* C14: a run() started while another run() held its page never closes that
\* page as the browser's first page while the other run() still holds it, and
\* no close() it calls closes the browser that page lives in.
C14_RunsDoNotInterfere ==
  \A t \in Tasks : \A u \in Tasks \ {t} :
    (HoldsPage(t) /\ IsOpen(call[t].page) /\ RunOf(u) /\ call[u].over = call[t].page)
      => /\ ~(call[u].pc = "cp_first" /\ call[u].first = call[t].page)
         /\ \A i \in 1..Len(ex) :
              ~(ex[i].owner = u /\ ex[i].st = "browser" /\ call[t].page \in Range(pages[ex[i].b]))

\* C15: in every raw Experience and VolunteerExperience record, endDate is the
\* sentinel 'Present' exactly when endDateIsPresent is true.
C15_EndDateMatchesFlag ==
  \A r \in Range(raw.experiences) \cup Range(raw.volunteerExperiences) :
    (r.endDate = Present) <=> r.endDateIsPresent

\* what C16 says of one normalized record
DurationAsClaimed(r, openEnded) ==
  LET d == r.durationInDays
  IN  /\ \A n \in d : n >= 0
      /\ r.startDate = NoValue => d = NoValue
      /\ (~openEnded /\ r.endDate = NoValue) => d = NoValue
      /\ (~openEnded /\ \E a \in r.startDate : \E b \in r.endDate : b < a) => d = NoValue
      /\ (openEnded /\ r.startDate # NoValue) => d = {Today - n : n \in r.startDate}

\* C16: durationInDays of every normalized Experience, Education and
\* VolunteerExperience record is null or non-negative; null when the start
\* date is null, when the entry is not open-ended and the end date is null,
\* and when the end precedes the start; for an open-ended entry with a start
\* date it is the number of days from the start date to today.
C16_DurationNullOrWholeDays ==
  /\ \A r \in Range(out.experiences) \cup Range(out.volunteerExperiences) :
       DurationAsClaimed(r, r.endDateIsPresent)
  /\ \A r \in Range(out.education) : DurationAsClaimed(r, FALSE)

\* the records the nodes of section s give when taken by themselves
OwnRecords(s) ==
  CASE s = "experiences" ->
         [i \in Indices(doc.experiences) |->
            Experience(RawExperience(doc.experiences[i]), sentinelIsDate)]
    [] s = "education" ->
         [i \in Indices(doc.education) |->
            Education(RawEducation(doc.education[i]), sentinelIsDate)]
    [] s = "volunteerExperiences" ->
         [i \in Indices(doc.volunteerExperiences) |->
            VolunteerExperience(RawVolunteerExperience(doc.volunteerExperiences[i]),
                                sentinelIsDate)]
    [] s = "skills" -> [i \in Indices(doc.skills) |-> Skill(doc.skills[i])]

\* C17: in the result run() returns, a section without nodes is the empty
\* array, every section has one record per node, and the records of a section
\* are those its own nodes give, whatever the other sections contain.
C17_EmptySectionGivesEmptyArray ==
  at = "returned" =>
    \A s \in Sections :
      /\ doc[s] = <<>> => out[s] = <<>>
      /\ Len(out[s]) = Len(doc[s])
      /\ out[s] = OwnRecords(s)

C17_Witness ==
  /\ at = "returned"
  /\ doc.experiences = <<>> /\ out.experiences = <<>>
  /\ out.education # <<>> /\ out.volunteerExperiences # <<>> /\ out.skills # <<>>

\* the option objects C18 calls invalid
InvalidOptions(o) ==
  \/ o.sessionCookieValue.t # "string" \/ o.sessionCookieValue.s = EmptyString
  \/ o.userAgent.t \notin {"undefined", "null", "string"}
  \/ o.keepAlive.t \notin {"undefined", "boolean"}
  \/ o.headless.t \notin {"undefined", "boolean"}
  \/ o.timeout.t \notin {"undefined", "number"}

\* C18: the constructor throws on invalid options, no browser is launched by
\* it, and a constructed instance has no browser.
C18_InvalidOptionsThrow ==
  instance # "none" =>
    /\ InvalidOptions(userDefinedOptions) => instance = "threw"
    /\ browser = 0 /\ launched = 0

\* C19: a close() that is still at its page step has not touched the browser,
\* it starts the force-kill only after its graceful browser.close(), and its
\* promise is not resolved while the force-kill it started has not completed.
C19_CloseResolvesAfterKill ==
  \A i \in 1..Len(ex) :
    /\ ex[i].st = "page" => (~ex[i].acted /\ ex[i].kill = "none")
    /\ ex[i].kill # "none" => ex[i].acted
    /\ (ex[i].settled = "resolved" /\ ex[i].kill # "none") => ex[i].kill = "ok"

\* the stages of a run(), in the order of its code
RunStages ==
  <<Stage("PageOpen"), Stage("Navigated"), Stage("ContentLoaded"),
    Extracted("profile"), Normalized("profile"),
    Extracted("experiences"), Normalized("experiences"),
    Extracted("education"), Normalized("education"),
    Extracted("volunteerExperiences"), Normalized("volunteerExperiences"),
    Extracted("skills"), Stage("Closed")>>

\* the stages of kind `stage` among the first n entries of a log
Passed(log, n, stage) == {log[j] : j \in {k \in 1..n : log[k].stage = stage}}

\* C20 as stated: in the stages a run() has passed, a section is normalized
\* only after every section has been extracted, a section is extracted only
\* after the content has been loaded, and the page is closed only after every
\* normalization.
C20_ExtractedThenNormalized ==
  \A t \in Tasks :
    LET log == call[t].log
    IN  \A i \in 1..Len(log) :
          /\ log[i].stage = "Normalized" =>
                Passed(log, i - 1, "Extracted") = Passed(RunStages, Len(RunStages), "Extracted")
          /\ log[i].stage = "Extracted" => Stage("ContentLoaded") \in Range(SubSeq(log, 1, i - 1))
          /\ log[i].stage = "Closed" =>
                Passed(log, i - 1, "Normalized") = Passed(RunStages, Len(RunStages), "Normalized")

\* C20, amended: the stages a run() has passed are an initial part of
\* RunStages (each section is extracted and then normalized before the next
\* one is extracted), and a run() that resolved has passed all of them.
C20_StagesInCodeOrder ==
  \A t \in Tasks :
    /\ Len(call[t].log) <= Len(RunStages)
    /\ call[t].log = SubSeq(RunStages, 1, Len(call[t].log))
    /\ (RunOf(t) /\ call[t].pc = "resolved") => call[t].log = RunStages

C20_Witness ==
  \E t \in Tasks : RunOf(t) /\ call[t].pc = "resolved" /\ call[t].log = RunStages

\* C21: in the first expansion pass the four section selectors are looked up
\* once each in the order About, Experience, Education, Skills; a click is
\* attempted at most once per selector and only just after its lookup found the
\* control; whatever the lookups and clicks do, all four are looked up and
\* run() goes on to the settle delay: it never fails inside the first pass.
C21_FirstPassIsBestEffort ==
  LET lookups == SelectSeq(xlog, LAMBDA e : e.pass = 1 /\ e.event = "lookup")
      pastFirstPass == xp.pc \in {"waitFor", "page.$$", "button.click", "done", "failed"}
  IN
    /\ Len(lookups) <= Len(expandButtonsSelectors)
    /\ \A k \in 1..Len(lookups) :
         lookups[k].selector = expandButtonsSelectors[k]
    /\ \A j \in 1..Len(xlog) :
         (xlog[j].pass = 1 /\ xlog[j].event = "click")
           => /\ j > 1
              /\ xlog[j-1].pass = 1
              /\ xlog[j-1].event = "lookup"
              /\ xlog[j-1].selector = xlog[j].selector
              /\ xlog[j-1].result = "element"
    /\ pastFirstPass => Len(lookups) = Len(expandButtonsSelectors)
    /\ xp.pc = "failed" => /\ Len(lookups) = Len(expandButtonsSelectors)
                           /\ xlog[Len(xlog)].event \in {"waitFor", "lookup"}
                           /\ xlog[Len(xlog)].event = "lookup" => xlog[Len(xlog)].pass = 2
                           /\ xlog[Len(xlog)].result = "throws"

\* C21 (witness): the settle delay is reached after a first pass in which one
\* control was missing, one lookup threw, one click threw and one click worked.
C21_Witness ==
  /\ xp.pc = "waitFor"
  /\ \E a, b, c, d \in 1..Len(xlog) :
       /\ xlog[a].event = "lookup" /\ xlog[a].result = "null"
       /\ xlog[b].event = "lookup" /\ xlog[b].result = "throws"
       /\ xlog[c].event = "click" /\ xlog[c].result = "throws"
       /\ xlog[d].event = "click" /\ xlog[d].result = "ok"

\* C22: the second expansion pass begins only after the four lookups of the
\* first pass and a settle delay that elapsed; when it is over every 'see more'
\* link of the document has been clicked exactly once; and a click that throws
\* does not end run().
C22_SecondPassClicksEachOnce ==
  LET clicks(e) ==
        Len(SelectSeq(xlog, LAMBDA x : x.pass = 2 /\ x.event = "click" /\ x.element = e))
      before ==
        SelectSeq([j \in 1..Len(xlog) |-> IF \E k \in 1..j : xlog[k].pass = 2
                                          THEN Event(2, "skip", "none", 0, "ok")
                                          ELSE xlog[j]],
                  LAMBDA x : x.pass = 1)
  IN
    /\ (\E j \in 1..Len(xlog) : xlog[j].pass = 2)
         => /\ Len(SelectSeq(before, LAMBDA x : x.event = "lookup"))
                 = Len(expandButtonsSelectors)
            /\ before[Len(before)] = Event(1, "waitFor", "none", 0, "ok")
    /\ xp.pc = "done" => \A e \in 1..Len(dom.kind) : clicks(e) = 1
    /\ xp.pc = "failed" => xlog[Len(xlog)].event # "click"

\* C23: autoScroll has scrolled 500 pixels per callback; it goes on exactly
\* while the distance scrolled is below the scroll height its last callback
\* read; and once it has stopped the distance scrolled has reached the scroll
\* height the document has now, whatever the scroll steps made the page load.
C23_StopsAtCurrentHeight ==
  /\ scroll.totalHeight = scroll.steps * distance
  /\ (scroll.pc = "interval" /\ scroll.steps > 0)
       => scroll.totalHeight < scroll.scrollHeight
  /\ scroll.pc = "resolved" => scroll.totalHeight >= scroll.scrollHeight
  /\ scroll.pc = "resolved" => scroll.totalHeight >= height

\* C24: with the scroll height growing at most MaxGrow times, autoScroll
\* eventually clears its timer and resolves; after that no further scroll step
\* is made; and when the height never grew it has made exactly
\* max(1, ceil(H/500)) scroll steps.
C24_AutoScrollTerminates ==
  /\ <>(scroll.pc = "resolved")
  /\ [][scroll.pc = "resolved" => scroll' = scroll]_vars
  /\ []((scroll.pc = "resolved" /\ grown.times = 0)
          => scroll.steps = IF (height + distance - 1) \div distance > 1
                            THEN (height + distance - 1) \div distance
                            ELSE 1)

\* C24 (witness): autoScroll has resolved after three scroll steps on a
\* document of constant height 1250.
C24_Witness ==
  /\ scroll.pc = "resolved"
  /\ grown.times = 0
  /\ height = 2 * distance + distance \div 2
  /\ scroll.steps = 3

C26_DateRangeSplit ==
  LET oneEnDash(text) == text # Null /\ Len(Split(text, EnDash)) = 2
      asClaimed(text, r) ==
        LET S == Split(text, EnDash)[1]
            E == Split(text, EnDash)[2]
        IN  /\ r.startDate = Trim(S)
            /\ IF ToLowerCase(Trim(E)) = PresentLower
               THEN r.endDateIsPresent /\ r.endDate = Present
               ELSE ~r.endDateIsPresent /\ r.endDate = Trim(E)
  IN
    /\ \A i \in Indices(raw.experiences) :
         oneEnDash(doc.experiences[i].dateRange)
           => asClaimed(doc.experiences[i].dateRange, raw.experiences[i])
    /\ \A j \in Indices(raw.volunteerExperiences) :
         oneEnDash(doc.volunteerExperiences[j].dateRange)
           => asClaimed(doc.volunteerExperiences[j].dateRange,
                                 raw.volunteerExperiences[j])
    /\ \A i \in Indices(raw.experiences) : \A j \in Indices(raw.volunteerExperiences) :
         doc.experiences[i].dateRange = doc.volunteerExperiences[j].dateRange
           => /\ raw.experiences[i].startDate = raw.volunteerExperiences[j].startDate
              /\ raw.experiences[i].endDate = raw.volunteerExperiences[j].endDate
              /\ raw.experiences[i].endDateIsPresent
                   = raw.volunteerExperiences[j].endDateIsPresent

====
